---- MODULE Spec2Model ----
(***************************************************************************)
(* Model of local_llms: the service supervisor (core.py, LocalLLMManager)  *)
(* and the resumable part download pipeline (download.py).                 *)
(***************************************************************************)
EXTENDS Integers, Sequences, FiniteSets, TLC

(* ------------------------------------------------------------------ *)
(* Bounds and input domains                                            *)
(* ------------------------------------------------------------------ *)

\* Number of server processes the manager may spawn in one behaviour.
MaxPid == 2

\* Model identifiers (filecoin hashes) and ports given to start().
Hashes == {"H1", "H2"}
Ports == {8080, 8081}

VARIABLES
    record,   \* running_service.pkl: the persisted {hash, port, pid}, or absent
    procs,    \* spawned llama-server processes, indexed by pid: [port, st]
    store,    \* identifiers whose <hash>.gguf artifact is in llms-storage
    pc,       \* position of the current manager invocation
    inv,      \* locals of the current invocation
    result,   \* value the current / last invocation returned
    hist      \* observations of the current invocation (history only)

supVars == <<record, procs, store, pc, inv, result, hist>>

VARIABLES
    dlStore,     \* <output_dir>/<filecoin_hash>.gguf exists
    tempDir,     \* the working directory Path(model_name) exists
    files,       \* part files in the working directory: [ex, data]
    caches,      \* <part>.hash files: "none" or the hash value written
    resumes,     \* <part>.resume files exist
    resumeState, \* <output_dir>/<filecoin_hash>.resume_state exists
    task,        \* one download_file call per manifest entry
    pipe,        \* the download_and_extract_model invocation
    staging      \* <output_dir>/<model_name>, where tar extracts, exists

dlVars == <<dlStore, tempDir, files, caches, resumes, resumeState, task, pipe,
            staging>>

VARIABLES
    clients      \* manager invocations run as separate processes at once

VARIABLES
    pool         \* the ThreadPoolExecutor of a pipeline invocation, by counts


(* ------------------------------------------------------------------ *)
(* Persisted record and process table                                  *)
(* ------------------------------------------------------------------ *)

NoRecord == [present |-> FALSE, hash |-> "", port |-> 0, pid |-> 0]

\* service_info written by _dump_running_service
ServiceInfo(h, p, pid) == [present |-> TRUE, hash |-> h, port |-> p, pid |-> pid]

Pids == 1..Len(procs)

\* A process runs (is not a zombie and not gone).
Alive(p) == p \in Pids /\ procs[p].st \in {"loading", "healthy", "unbound"}

\* A running server that holds its port.
Serving(p) == p \in Pids /\ procs[p].st \in {"loading", "healthy"}

\* psutil.pid_exists: true for running processes and for zombies.
PidExists(p) == p \in Pids /\ procs[p].st # "gone"

\* The processes listening on a port (at most one: bind is exclusive).
Listener(port) == {p \in Pids : Serving(p) /\ procs[p].port = port}

\* Outcomes of GET http://localhost:<port>/health as the callers see them:
\* "ok" (200, status ok), "nonok" (other status), "timeout" (no answer in
\* time), "connerr" (nothing listens: requests ConnectionError).
HealthProbe(port) ==
    IF Listener(port) = {} THEN {"connerr"}
    ELSE IF \E p \in Listener(port) : procs[p].st = "healthy" THEN {"ok"}
    ELSE {"nonok", "timeout"}

NoInv == [op |-> "", hash |-> "", port |-> 0, path |-> "", child |-> 0,
          pid |-> 0, caller |-> ""]

\* What an invocation observes from its first step on.
Observe(op) ==
    [op |-> op, rec0 |-> record, n0 |-> Len(procs),
     healthy0 |-> record.present /\ record.pid \in Pids
                    /\ procs[record.pid].st = "healthy"
                    /\ HealthProbe(record.port) = {"ok"},
     alive0 |-> record.present /\ Alive(record.pid),
     exists0 |-> record.present /\ PidExists(record.pid),
     probe |-> "", sigs |-> 0, fops |-> 0, kills |-> 0,
     oks |-> 0, okChildDead |-> FALSE,
     spawned |-> FALSE, spawnRec |-> FALSE, spawnOldAlive |-> FALSE,
     stopFailed |-> FALSE]

Idle == pc \in {"idle", "done"}

SupInit ==
    /\ record = NoRecord
    /\ procs = <<>>
    /\ store = {}
    /\ pc = "idle"
    /\ inv = NoInv
    /\ result = ""
    /\ hist = Observe("")

(* ------------------------------------------------------------------ *)
(* Environment: the spawned llama-server processes                     *)
(* ------------------------------------------------------------------ *)

\* The server finished loading the model: /health answers ok.
ProcReady(p) ==
    /\ p \in Pids /\ procs[p].st = "loading"
    /\ procs' = [procs EXCEPT ![p].st = "healthy"]
    /\ UNCHANGED <<record, store, pc, inv, result, hist>>
    /\ UNCHANGED <<dlVars, clients, pool>>

\* The server stops answering ok (busy, error status).
ProcDegrade(p) ==
    /\ p \in Pids /\ procs[p].st = "healthy"
    /\ procs' = [procs EXCEPT ![p].st = "loading"]
    /\ UNCHANGED <<record, store, pc, inv, result, hist>>
    /\ UNCHANGED <<dlVars, clients, pool>>

\* The process exits (crash, bind failure, killed from outside).
ProcExit(p) ==
    /\ Alive(p)
    /\ procs' = [procs EXCEPT ![p].st = "zombie"]
    /\ UNCHANGED <<record, store, pc, inv, result, hist>>
    /\ UNCHANGED <<dlVars, clients, pool>>

\* The exited process is reaped: its pid no longer exists.
ProcReap(p) ==
    /\ p \in Pids /\ procs[p].st = "zombie"
    /\ procs' = [procs EXCEPT ![p].st = "gone"]
    /\ UNCHANGED <<record, store, pc, inv, result, hist>>
    /\ UNCHANGED <<dlVars, clients, pool>>

(* ------------------------------------------------------------------ *)
(* LocalLLMManager.start                                               *)
(* ------------------------------------------------------------------ *)

\* An invocation ends: the value it returns (or "raised").
Return(v) == pc' = "done" /\ result' = v

\* Variant: a start() that never recognises the record as its own.
SameHashNever(rec, h) == FALSE

\* service_info.get("hash") == hash
SameHash(rec, h) == rec.hash = h

\* Variant: a poll loop that takes any outcome of the probe for ok.
HealthOkAny(r) == TRUE

\* status.status_code == 200 and status_json.get("status") == "ok"
HealthOk(r) == r = "ok"

\* os.path.exists("running_service.pkl")
RecordExists == record.present

\* start(hash, port): entry; an empty hash raises ValueError.
StartBegin(h, p) ==
    /\ UNCHANGED <<dlVars, clients, pool>>
    /\ Idle
    /\ Len(procs) < MaxPid
    /\ hist' = Observe("start")
    /\ inv' = [NoInv EXCEPT !.op = "start", !.hash = h, !.port = p,
                            !.caller = "cli"]
    /\ IF h = "" THEN Return("raised")
       ELSE pc' = "s_download" /\ result' = ""
    /\ UNCHANGED <<record, procs, store>>

\* local_model_path = download_model_from_filecoin(hash): the content store
\* gate, then the fetch pipeline, which yields the artifact or no path.
DownloadModelFromFilecoin ==
    /\ UNCHANGED <<dlVars, clients, pool>>
    /\ pc = "s_download"
    /\ \/ /\ inv.hash \in store
          /\ inv' = [inv EXCEPT !.path = "ok"]
          /\ store' = store
       \/ /\ inv.hash \notin store
          /\ inv' = [inv EXCEPT !.path = "ok"]
          /\ store' = store \cup {inv.hash}
       \/ /\ inv.hash \notin store
          /\ inv' = [inv EXCEPT !.path = "None"]
          /\ store' = store
    /\ pc' = "s_record"
    /\ UNCHANGED <<record, procs, result, hist>>

\* The record check: same hash returns True, another hash calls stop().
StartCheckRecord ==
    /\ UNCHANGED <<dlVars, clients, pool>>
    /\ pc = "s_record"
    /\ IF ~RecordExists
       THEN pc' = "s_exists" /\ UNCHANGED <<inv, result>>
       ELSE IF SameHash(record, inv.hash)
       THEN Return("True") /\ UNCHANGED inv
       ELSE /\ pc' = "t_check"
            /\ inv' = [inv EXCEPT !.caller = "start"]
            /\ UNCHANGED result
    /\ UNCHANGED <<record, procs, store, hist>>

\* os.path.exists(local_model_path); a None path raises TypeError, which
\* the outer handler turns into False.
StartExists ==
    /\ UNCHANGED <<dlVars, clients, pool>>
    /\ pc = "s_exists"
    /\ IF inv.path = "None" \/ inv.hash \notin store
       THEN Return("False")
       ELSE pc' = "s_spawn" /\ UNCHANGED result
    /\ UNCHANGED <<record, procs, store, inv, hist>>

\* subprocess.Popen(command, preexec_fn=os.setsid): a new process, which
\* gets its port unless a running server already holds it.
StartSpawn ==
    /\ UNCHANGED <<dlVars, clients, pool>>
    /\ pc = "s_spawn"
    /\ \/ /\ Return("False")           \* FileNotFoundError / SubprocessError
          /\ UNCHANGED <<procs, inv, hist>>
       \/ /\ procs' = Append(procs,
                 [port |-> inv.port,
                  st |-> IF Listener(inv.port) = {} THEN "loading"
                         ELSE "unbound"])
          /\ inv' = [inv EXCEPT !.child = Len(procs) + 1]
          /\ hist' = [hist EXCEPT !.spawned = TRUE,
                                  !.spawnRec = record.present,
                                  !.spawnOldAlive = hist.rec0.present
                                                    /\ Alive(hist.rec0.pid)]
          /\ pc' = "s_poll"
          /\ UNCHANGED result
    /\ UNCHANGED <<record, store>>

\* time.time() - start_time > maximum_start_time: communicate(timeout=1)
\* returns for an exited child and raises TimeoutExpired (a SubprocessError)
\* for a running one; start returns False either way, the child is left as is.
StartPollTimeout ==
    /\ UNCHANGED <<dlVars, clients, pool>>
    /\ pc = "s_poll"
    /\ Return("False")
    /\ UNCHANGED <<record, procs, store, inv, hist>>

\* One health poll.  ok: break, _dump_running_service, return True.
\* ConnectionError: return False if the child's pid is gone, else sleep.
\* Anything else (other status, other exception): sleep and poll again.
StartPollProbe ==
    /\ UNCHANGED <<dlVars, clients, pool>>
    /\ pc = "s_poll"
    /\ \E r \in HealthProbe(inv.port) :
         /\ hist' = [hist EXCEPT
                       !.probe = r,
                       !.oks = IF r = "ok" THEN 1 ELSE @,
                       !.okChildDead = IF r = "ok" THEN ~Alive(inv.child) ELSE @,
                       !.fops = IF HealthOk(r) THEN @ + 1 ELSE @]
         /\ IF HealthOk(r)
            THEN /\ record' = ServiceInfo(inv.hash, inv.port, inv.child)
                 /\ Return("True")
            ELSE IF r = "connerr" /\ ~PidExists(inv.child)
            THEN Return("False") /\ UNCHANGED record
            ELSE UNCHANGED <<record, pc, result>>
    /\ UNCHANGED <<procs, store, inv>>

(* ------------------------------------------------------------------ *)
(* LocalLLMManager.stop                                                *)
(* ------------------------------------------------------------------ *)

\* stop() returns v: to the command line, or into start(), which ignores it.
StopReturn(v) ==
    IF inv.caller = "start"
    THEN pc' = "s_exists" /\ UNCHANGED result
    ELSE Return(v)

\* Variant: a handler that reports success.
StopErrorSwallowed == "True"

\* except Exception in stop(): log and return False.
StopErrorValue == "False"

\* process.is_running() after process.wait() has returned.
IsRunning(table, p) == table[p].st \in {"loading", "healthy", "unbound"}

\* process.wait(timeout=5) may raise psutil.TimeoutExpired.
WaitMayTimeOut == TRUE

StopBegin ==
    /\ UNCHANGED <<dlVars, clients, pool>>
    /\ Idle
    /\ hist' = Observe("stop")
    /\ inv' = [NoInv EXCEPT !.op = "stop", !.caller = "cli"]
    /\ pc' = "t_check"
    /\ result' = ""
    /\ UNCHANGED <<record, procs, store>>

\* Variant: a stop() without the existence check.
StopNoRecordSkipped == FALSE

\* not os.path.exists("running_service.pkl")
StopNoRecord == ~RecordExists

\* No record: return False.  Else load port, hash and pid from it.
StopCheck ==
    /\ UNCHANGED <<dlVars, clients, pool>>
    /\ pc = "t_check"
    /\ IF StopNoRecord
       THEN StopReturn("False") /\ UNCHANGED inv
       ELSE /\ inv' = [inv EXCEPT !.pid = record.pid]
            /\ pc' = "t_term"
            /\ UNCHANGED result
    /\ UNCHANGED <<record, procs, store, hist>>

\* psutil.pid_exists(pid); psutil.Process(pid).terminate()
StopTerminate ==
    /\ UNCHANGED <<dlVars, clients, pool>>
    /\ pc = "t_term"
    /\ \/ /\ ~PidExists(inv.pid)       \* nothing to signal: remove the record
          /\ record' = NoRecord
          /\ hist' = [hist EXCEPT !.fops = @ + 1]
          /\ StopReturn("True")
       \/ /\ PidExists(inv.pid)        \* NoSuchProcess / AccessDenied raised
          /\ hist' = [hist EXCEPT !.stopFailed = TRUE]
          /\ StopReturn(StopErrorValue)
          /\ UNCHANGED record
       \/ /\ PidExists(inv.pid)        \* SIGTERM sent
          /\ hist' = [hist EXCEPT !.sigs = @ + 1]
          /\ pc' = "t_wait"
          /\ UNCHANGED <<record, result>>
    /\ UNCHANGED <<procs, store, inv>>

\* process.wait(timeout=5): the process is gone and wait returns, or it is
\* still there after 5 s and wait raises TimeoutExpired, which the handler
\* turns into False.  After a return: kill() if is_running(), then
\* os.remove("running_service.pkl") and True.
StopWait ==
    /\ UNCHANGED <<dlVars, clients, pool>>
    /\ pc = "t_wait"
    /\ \/ LET after == [procs EXCEPT ![inv.pid].st = "gone"] IN
          /\ procs' = after
          /\ hist' = [hist EXCEPT
                        !.kills = IF IsRunning(after, inv.pid) THEN @ + 1 ELSE @,
                        !.fops = @ + 1]
          /\ record' = NoRecord
          /\ StopReturn("True")
       \/ /\ WaitMayTimeOut
          /\ Alive(inv.pid) \/ procs[inv.pid].st = "zombie"
          /\ hist' = [hist EXCEPT !.stopFailed = TRUE]
          /\ StopReturn(StopErrorValue)
          /\ UNCHANGED <<record, procs>>
    /\ UNCHANGED <<store, inv>>

(* ------------------------------------------------------------------ *)
(* LocalLLMManager.get_running_model (the status command)              *)
(* ------------------------------------------------------------------ *)

\* What get_running_model returns when the health check passed: the function
\* ends without a return statement.
RunningModelValue(rec) == "None"

\* The handler's exception tuple names pickle.UnpickleError, which does not
\* exist: evaluating it while an exception is being handled raises
\* AttributeError, and the handler body does not run.
HandlerCatches == FALSE

GetRunningModel ==
    /\ UNCHANGED <<dlVars, clients, pool>>
    /\ Idle
    /\ inv' = [NoInv EXCEPT !.op = "status", !.caller = "cli"]
    /\ IF ~RecordExists
       THEN /\ hist' = Observe("status")
            /\ Return("None")
            /\ UNCHANGED record
       ELSE \E r \in HealthProbe(record.port) :
            /\ IF r \in {"connerr", "timeout"}        \* RequestException
               THEN IF HandlerCatches
                    THEN /\ record' = NoRecord
                         /\ hist' = [Observe("status") EXCEPT !.probe = r, !.fops = 1]
                         /\ Return("None")
                    ELSE /\ hist' = [Observe("status") EXCEPT !.probe = r]
                         /\ Return("raised")
                         /\ UNCHANGED record
               ELSE IF ~HealthOk(r)                   \* not healthy: os.remove
               THEN /\ record' = NoRecord
                    /\ hist' = [Observe("status") EXCEPT !.probe = r, !.fops = 1]
                    /\ Return("None")
               ELSE /\ hist' = [Observe("status") EXCEPT !.probe = r]
                    /\ Return(RunningModelValue(record))
                    /\ UNCHANGED record
    /\ UNCHANGED <<procs, store>>

(* ------------------------------------------------------------------ *)
(* Supervisor specification                                            *)
(* ------------------------------------------------------------------ *)

Env ==
    \E p \in 1..MaxPid : ProcReady(p) \/ ProcDegrade(p) \/ ProcExit(p) \/ ProcReap(p)

SupNext ==
    \/ \E h \in Hashes \cup {""}, p \in Ports : StartBegin(h, p)
    \/ DownloadModelFromFilecoin
    \/ StartCheckRecord
    \/ StartExists
    \/ StartSpawn
    \/ StartPollTimeout
    \/ StartPollProbe
    \/ StopBegin
    \/ StopCheck
    \/ StopTerminate
    \/ StopWait
    \/ GetRunningModel
    \/ Env


(* ------------------------------------------------------------------ *)
(* Supervisor properties                                               *)
(* ------------------------------------------------------------------ *)

StartDone == pc = "done" /\ inv.op = "start"
StopDone == pc = "done" /\ inv.op = "stop"
StatusDone == pc = "done" /\ inv.op = "status"

\* start() was asked for another identifier than the one recorded.
OtherRecorded == hist.rec0.present /\ hist.rec0.hash # inv.hash

\* C1: in every reachable state at most one server process spawned by the
\* manager is running (stated for the servers that hold their port; a second
\* process that merely failed to bind is not even counted).
C1_AtMostOneServer == Cardinality({p \in Pids : Serving(p)}) <= 1

\* C2: when start(H2, P2) finds a record for another identifier, the recorded
\* process is terminated and the record removed before the new process is
\* spawned, and a successful start leaves exactly {H2, P2, pid of the new
\* process} as the record.
C2_StopBeforeSpawn ==
    (inv.op = "start" /\ OtherRecorded /\ hist.spawned) =>
        /\ ~hist.spawnRec
        /\ ~hist.spawnOldAlive
        /\ (pc = "done" /\ result = "True" =>
                record = ServiceInfo(inv.hash, inv.port, inv.child))

\* C3: start(H, P) while the recorded service for H is healthy returns True,
\* spawns no process and leaves the record as it was.
C3_IdempotentStart ==
    (inv.op = "start" /\ hist.healthy0 /\ hist.rec0.hash = inv.hash) =>
        /\ Len(procs) = hist.n0
        /\ record = hist.rec0
        /\ (pc = "done" => result = "True")

C3_Witness ==
    /\ StartDone /\ hist.healthy0 /\ hist.rec0.hash = inv.hash
    /\ result = "True" /\ Len(procs) = 1

\* C4: start() returns success only after the health endpoint answered ok,
\* and never when the spawned process had exited before that first ok.
C4_HealthGated ==
    (StartDone /\ result = "True") =>
        IF hist.spawned THEN hist.oks > 0 /\ ~hist.okChildDead
        ELSE hist.rec0.present

\* C5: status() on a record whose process is dead, or whose health endpoint
\* is unreachable or answers non-ok, returns None and removes the record.
C5_StaleRecordRemoved ==
    (StatusDone /\ hist.rec0.present
       /\ (~hist.alive0 \/ hist.probe \in {"connerr", "nonok"})) =>
        result = "None" /\ ~record.present

\* C6: status() on a record whose health endpoint answers ok returns the
\* recorded identifier and keeps the record.
C6_StatusReportsModel ==
    (StatusDone /\ hist.rec0.present /\ hist.probe = "ok") =>
        result = hist.rec0.hash /\ record = hist.rec0

\* C7: stop() without a persisted record returns False, sends no signal and
\* touches no file.
C7_StopNothing ==
    (inv.op = "stop" /\ ~hist.rec0.present) =>
        /\ hist.sigs = 0 /\ hist.kills = 0 /\ hist.fops = 0
        /\ record = hist.rec0
        /\ pc \in {"t_check", "done"}
        /\ (pc = "done" => result = "False")

C7_Witness ==
    StopDone /\ ~hist.rec0.present /\ result = "False" /\ Len(procs) > 0

\* C8: once stop() has sent the termination signal to a running process, the
\* process ends up dead (by itself or by the forced kill), the record is
\* removed and stop() returns True.
C8_StopKills ==
    (StopDone /\ hist.alive0 /\ hist.sigs > 0) =>
        /\ result = "True"
        /\ ~record.present
        /\ ~Alive(hist.rec0.pid)

\* C13: a start() that returns False (timeout, death of the spawned process,
\* launch error) has written no record: the record is the one found at entry
\* or absent; a record written by start() means the probe answered ok and
\* start() returned True.
C13_NoRecordOnFailure ==
    inv.op = "start" =>
        /\ (pc = "done" /\ result = "False") => record \in {hist.rec0, NoRecord}
        /\ (record.present /\ record # hist.rec0) =>
               (hist.oks > 0 /\ pc = "done" /\ result = "True")

\* start() returned False after the process it spawned died.
C13_Witness ==
    /\ StartDone /\ result = "False" /\ hist.spawned
    /\ hist.probe = "connerr" /\ ~PidExists(inv.child)
    /\ ~record.present

(* ------------------------------------------------------------------ *)
(* Concurrent invocations: separate processes sharing the record file  *)
(* ------------------------------------------------------------------ *)

\* Command-line processes that may run at the same time.
Clients == {1, 2}

\* running_service.pkl between open(..., "wb") and the end of pickle.dump:
\* the file exists and holds no complete pickle.
Truncated == [present |-> TRUE, hash |-> "", port |-> 0, pid |-> 0]

\* What a reader of running_service.pkl gets: no file, a file pickle.load
\* cannot decode (EOFError), or a complete service_info.
ReadRecord ==
    IF ~record.present THEN "absent"
    ELSE IF record = Truncated THEN "torn"
    ELSE "whole"

NoClient == [pc |-> "idle", op |-> "", hash |-> "", port |-> 0, path |-> "",
             pid |-> 0, child |-> 0, caller |-> "", result |-> "",
             seen |-> "", spawned |-> FALSE]

ConcInit == clients = [i \in Clients |-> NoClient]

\* What the concurrent invocations leave alone.
seqVars == <<store, pc, inv, result, hist, pool>>

\* An invocation ends with value v; its other locals are gone.
CRet(c, v) == [NoClient EXCEPT !.pc = "done", !.op = c.op, !.seen = c.seen,
                               !.result = v]

\* stop() returns into start(), which ignores the value, or to the caller.
CStopRet(c, v) == IF c.caller = "start" THEN [c EXCEPT !.pc = "c_exists"]
                  ELSE CRet(c, v)

CIdle(i) == clients[i].pc \in {"idle", "done"}

CStartBegin(i, h, p) ==
    /\ CIdle(i)
    /\ Len(procs) < MaxPid
    /\ clients' = [clients EXCEPT ![i] =
          [NoClient EXCEPT !.op = "start", !.hash = h, !.port = p,
                           !.caller = "cli", !.pc = "c_download"]]
    /\ UNCHANGED <<record, procs, seqVars, dlVars>>

\* download_model_from_filecoin(hash) yields the artifact's path or None.
CDownload(i) ==
    /\ clients[i].pc = "c_download"
    /\ \E path \in {"ok", "None"} :
         clients' = [clients EXCEPT ![i] = [@ EXCEPT !.path = path, !.pc = "c_record"]]
    /\ UNCHANGED <<record, procs, seqVars, dlVars>>

\* os.path.exists + pickle.load of the record, and the decision taken on it.
\* An undecodable file raises into  except Exception: return False.
CStartRecord(i) ==
    /\ clients[i].pc = "c_record"
    /\ LET c == [clients[i] EXCEPT !.seen = ReadRecord] IN
       clients' = [clients EXCEPT ![i] =
          IF ReadRecord = "absent" THEN [c EXCEPT !.pc = "c_exists"]
          ELSE IF ReadRecord = "torn" THEN CRet(c, "False")
          ELSE IF SameHash(record, c.hash) THEN CRet(c, "True")
          ELSE [c EXCEPT !.pc = "c_t_check", !.caller = "start"]]
    /\ UNCHANGED <<record, procs, seqVars, dlVars>>

CStartExists(i) ==
    /\ clients[i].pc = "c_exists"
    /\ clients' = [clients EXCEPT ![i] =
          IF @.path = "None" THEN CRet(@, "False") ELSE [@ EXCEPT !.pc = "c_spawn"]]
    /\ UNCHANGED <<record, procs, seqVars, dlVars>>

CStartSpawn(i) ==
    /\ clients[i].pc = "c_spawn"
    /\ \/ /\ clients' = [clients EXCEPT ![i] = CRet(@, "False")]
          /\ UNCHANGED procs
       \/ /\ Len(procs) < MaxPid
          /\ procs' = Append(procs,
                 [port |-> clients[i].port,
                  st |-> IF Listener(clients[i].port) = {} THEN "loading"
                         ELSE "unbound"])
          /\ clients' = [clients EXCEPT ![i] =
                [@ EXCEPT !.child = Len(procs) + 1, !.spawned = TRUE,
                          !.pc = "c_poll"]]
    /\ UNCHANGED <<record, seqVars, dlVars>>

CStartPollTimeout(i) ==
    /\ clients[i].pc = "c_poll"
    /\ clients' = [clients EXCEPT ![i] = CRet(@, "False")]
    /\ UNCHANGED <<record, procs, seqVars, dlVars>>

\* One health poll; ok leaves the loop for _dump_running_service.
CStartPollProbe(i) ==
    /\ clients[i].pc = "c_poll"
    /\ \E r \in HealthProbe(clients[i].port) :
         clients' = [clients EXCEPT ![i] =
            IF HealthOk(r) THEN [@ EXCEPT !.pc = "c_dump"]
            ELSE IF r = "connerr" /\ ~PidExists(@.child) THEN CRet(@, "False")
            ELSE @]
    /\ UNCHANGED <<record, procs, seqVars, dlVars>>

\* open("running_service.pkl", "wb"): the file is created or truncated.
DumpOpen(rec) == Truncated

CDumpOpen(i) ==
    /\ clients[i].pc = "c_dump"
    /\ record' = DumpOpen(record)
    /\ clients' = [clients EXCEPT ![i].pc = "c_write"]
    /\ UNCHANGED <<procs, seqVars, dlVars>>

\* pickle.dump and close: the complete service_info is in the file.
CDumpWrite(i) ==
    /\ clients[i].pc = "c_write"
    /\ record' = ServiceInfo(clients[i].hash, clients[i].port, clients[i].child)
    /\ clients' = [clients EXCEPT ![i] = CRet(@, "True")]
    /\ UNCHANGED <<procs, seqVars, dlVars>>

CStopBegin(i) ==
    /\ CIdle(i)
    /\ clients' = [clients EXCEPT ![i] =
          [NoClient EXCEPT !.op = "stop", !.caller = "cli", !.pc = "c_t_check"]]
    /\ UNCHANGED <<record, procs, seqVars, dlVars>>

\* stop(): the existence check and pickle.load.
CStopCheck(i) ==
    /\ clients[i].pc = "c_t_check"
    /\ LET c == [clients[i] EXCEPT !.seen = ReadRecord] IN
       clients' = [clients EXCEPT ![i] =
          IF ReadRecord = "whole"
          THEN [c EXCEPT !.pid = record.pid, !.pc = "c_t_term"]
          ELSE CStopRet(c, "False")]
    /\ UNCHANGED <<record, procs, seqVars, dlVars>>

\* os.remove("running_service.pkl") raises FileNotFoundError when another
\* invocation removed the file first.
CRemoveRecord(i) ==
    IF record.present
    THEN /\ record' = NoRecord
         /\ clients' = [clients EXCEPT ![i] = CStopRet(@, "True")]
    ELSE /\ UNCHANGED record
         /\ clients' = [clients EXCEPT ![i] = CStopRet(@, "False")]

CStopTerminate(i) ==
    /\ clients[i].pc = "c_t_term"
    /\ \/ /\ ~PidExists(clients[i].pid)
          /\ CRemoveRecord(i)
       \/ /\ PidExists(clients[i].pid)
          /\ clients' = [clients EXCEPT ![i] = CStopRet(@, "False")]
          /\ UNCHANGED record
       \/ /\ PidExists(clients[i].pid)
          /\ clients' = [clients EXCEPT ![i].pc = "c_t_wait"]
          /\ UNCHANGED record
    /\ UNCHANGED <<procs, seqVars, dlVars>>

CStopWait(i) ==
    /\ clients[i].pc = "c_t_wait"
    /\ \/ /\ procs' = [procs EXCEPT ![clients[i].pid].st = "gone"]
          /\ CRemoveRecord(i)
       \/ /\ WaitMayTimeOut
          /\ PidExists(clients[i].pid)
          /\ clients' = [clients EXCEPT ![i] = CStopRet(@, "False")]
          /\ UNCHANGED <<record, procs>>
    /\ UNCHANGED <<seqVars, dlVars>>

\* get_running_model(): existence check, pickle.load, health probe, removal.
\* Every exception (EOFError of an undecodable file included) reaches the
\* except clause, whose tuple cannot be evaluated.
CStatus(i) ==
    /\ CIdle(i)
    /\ LET c == [NoClient EXCEPT !.op = "status", !.caller = "cli",
                                 !.seen = ReadRecord] IN
       IF ReadRecord = "absent"
       THEN /\ clients' = [clients EXCEPT ![i] = CRet(c, "None")]
            /\ UNCHANGED record
       ELSE IF ReadRecord = "torn"
       THEN /\ clients' = [clients EXCEPT ![i] = CRet(c, "raised")]
            /\ UNCHANGED record
       ELSE \E r \in HealthProbe(record.port) :
            IF r \in {"connerr", "timeout"} /\ ~HandlerCatches
            THEN /\ clients' = [clients EXCEPT ![i] = CRet(c, "raised")]
                 /\ UNCHANGED record
            ELSE IF ~HealthOk(r)
            THEN /\ clients' = [clients EXCEPT ![i] = CRet(c, "None")]
                 /\ record' = NoRecord
            ELSE /\ clients' = [clients EXCEPT ![i] = CRet(c, RunningModelValue(record))]
                 /\ UNCHANGED record
    /\ UNCHANGED <<procs, seqVars, dlVars>>

ConcNext ==
    \/ \E i \in Clients, h \in Hashes, p \in Ports : CStartBegin(i, h, p)
    \/ \E i \in Clients : CDownload(i)
    \/ \E i \in Clients : CStartRecord(i)
    \/ \E i \in Clients : CStartExists(i)
    \/ \E i \in Clients : CStartSpawn(i)
    \/ \E i \in Clients : CStartPollTimeout(i)
    \/ \E i \in Clients : CStartPollProbe(i)
    \/ \E i \in Clients : CDumpOpen(i)
    \/ \E i \in Clients : CDumpWrite(i)
    \/ \E i \in Clients : CStopBegin(i)
    \/ \E i \in Clients : CStopCheck(i)
    \/ \E i \in Clients : CStopTerminate(i)
    \/ \E i \in Clients : CStopWait(i)
    \/ \E i \in Clients : CStatus(i)
    \/ Env

\* C14: two start invocations running at once never both spawn a server
\* process: at most one of the invocations in progress has passed Popen.
C14_OneStarter ==
    \A i, j \in Clients :
        (i # j /\ clients[i].op = "start" /\ clients[j].op = "start") =>
            ~(clients[i].spawned /\ clients[j].spawned)

\* C15: whatever an invocation reads from the record file is no record or a
\* complete record, never a partially written one.
C15_NoTornRead == \A i \in Clients : clients[i].seen # "torn"

(* ------------------------------------------------------------------ *)
(* download.py: constants, manifest and gateway                        *)
(* ------------------------------------------------------------------ *)

SLEEP_TIME == 5
MAX_ATTEMPTS == 3

\* Bytes in every part on the gateway.
PartLen == 2

\* os.cpu_count()
CpuCount == 1

\* chunk_size values passed to download_file.
ChunkSizes == {1, 2}

\* File names a manifest may list.  The archive is the single part
\* '<model>.zip.part-aa'; "extra" is an entry whose name does not match
\* '<model>.zip.part-*'.
Names == {"part-aa", "extra"}
ArchiveParts == <<"part-aa">>

Base(n) == IF n = "part-aa" THEN 10 ELSE 30

\* The bytes the gateway serves for an entry.
ServerData(n) == [i \in 1..PartLen |-> Base(n) + i]

RECURSIVE Flatten(_)
\* cat: the byte sequences of qq, one after the other.
Flatten(qq) == IF qq = <<>> THEN <<>> ELSE Head(qq) \o Flatten(Tail(qq))

\* The compressed archive: its parts in order.
ArchiveData == Flatten([i \in 1..Len(ArchiveParts) |-> ServerData(ArchiveParts[i])])

\* content-length of the HEAD response: the size of the object, a smaller
\* size, or 0 when the header is missing.
HeadTotals(n) == {Len(ServerData(n)), Len(ServerData(n)) - 1, 0}

\* The manifest document: num_of_file, files, and whether the "hash" of an
\* entry is the sha256 of the part ("sha") or its storage identifier ("cid").
\* Nothing in download_and_extract_model checks num_of_file against files.
Manifests ==
    {[num |-> c[1], files |-> c[2], key |-> k] :
        c \in {<<1, <<"part-aa">> >>,
               <<2, <<"part-aa">> >>,
               <<1, <<"part-aa", "extra">> >>,
               <<2, <<"part-aa", "extra">> >>},
        k \in {"sha", "cid"}}

NoManifest == [num |-> 0, files |-> <<>>, key |-> "cid"]

NoFile == [ex |-> FALSE, data |-> <<>>]

NoTask == [st |-> "none", attempt |-> 0, existing |-> 0, total |-> 0,
           cur |-> 0, body |-> <<>>, range |-> -1, pre |-> <<>>,
           wait |-> 0, err |-> ""]

NoPipe == [pc |-> "idle", m |-> NoManifest, chunk |-> 0, workers |-> 0,
           interrupted |-> FALSE, connLost |-> FALSE, result |-> ""]

DlInit ==
    /\ dlStore = FALSE
    /\ tempDir = FALSE
    /\ files = [n \in Names |-> NoFile]
    /\ caches = [n \in Names |-> "none"]
    /\ resumes = [n \in Names |-> FALSE]
    /\ resumeState = FALSE
    /\ task = [n \in Names |-> NoTask]
    /\ pipe = NoPipe
    /\ staging = FALSE

Min(a, b) == IF a < b THEN a ELSE b
Max(a, b) == IF a < b THEN b ELSE a

SeqRange(q) == {q[i] : i \in 1..Len(q)}

\* Variant: the chunk is written whole.
SliceAll(chunk, k) == chunk

\* Python chunk[:k]: a prefix for k >= 0, all but the last -k bytes for k < 0.
SliceTo(chunk, k) ==
    IF k >= 0 THEN SubSeq(chunk, 1, Min(k, Len(chunk)))
    ELSE SubSeq(chunk, 1, Max(0, Len(chunk) + k))

\* hashlib.sha256(f.read()).hexdigest() == hash_value: only a "sha" entry
\* can equal the digest, and only for the bytes the entry names.
HashMatches(data, n, key) == key = "sha" /\ data = ServerData(n)

(* ------------------------------------------------------------------ *)
(* download_file                                                       *)
(* ------------------------------------------------------------------ *)

InProgress == {n \in Names : task[n].st \in {"probe", "stream", "verify"}}
Resolved(n) == task[n].st \in {"ok", "failed"}

\* The pool runs queued calls in submission order on a free worker.
MayStart(n) ==
    /\ task[n].st = "queued"
    /\ Cardinality(InProgress) < pipe.workers
    /\ \A i, j \in 1..Len(pipe.m.files) :
          (pipe.m.files[j] = n /\ i < j) => task[pipe.m.files[i]].st # "queued"

\* Variant: a download that never sends a Range header.
UseRangeNever(existing, total) == FALSE

\* elif existing_size and existing_size < total_size: headers["Range"]
UseRange(existing, total) == existing > 0 /\ existing < total

\* open(file_path, "ab" if existing_size else "wb")
AppendMode(existing) == existing > 0

\* download_file returns: (True, file_name) is "ok", (False, file_name) is
\* "failed"; its locals are gone.
Returned(t, st) == [NoTask EXCEPT !.st = st]

\* Exceptions an attempt may raise.  "conn": httpx.ConnectError, ReadTimeout,
\* ConnectTimeout.  "reset": a transport failure outside that tuple
\* (httpx.ReadError when the connection is reset while the body is read,
\* RemoteProtocolError, WriteTimeout).  "other": any other exception (an HTTP
\* error status from raise_for_status, an OSError of the file system).
Failures == {"conn", "reset", "other"}

\* Failures of the transport.
TransportFailures == {"conn", "reset"}

\* wait_time of the handler that catches the exception: the first
\* except clause takes "conn", the except Exception clause the rest.
Backoff(kind, attempt) ==
    IF kind = "conn" THEN SLEEP_TIME * 2 ^ (attempt - 1) ELSE SLEEP_TIME

\* The handlers at the end of an attempt: sleep and try again while attempts
\* remain, else fall out of the loop and return False.
RetryTask(t, kind) ==
    IF t.attempt < MAX_ATTEMPTS
    THEN [NoTask EXCEPT !.st = "probe", !.attempt = t.attempt + 1,
                        !.wait = Backoff(kind, t.attempt), !.err = kind]
    ELSE [Returned(t, "failed") EXCEPT !.err = kind]

\* Start of an attempt.  existing_size and the cached-hash check (a partial
\* file without a matching .hash file is deleted); the .hash and .resume
\* files are written; client.head, the already-complete check, the Range
\* header, client.stream and the open of the part file.  A failed request
\* raises after the .hash / .resume writes and before the file is opened.
DfAttempt(n) ==
    /\ UNCHANGED <<supVars, clients, pool, staging>>
    /\ pipe.pc = "running"
    /\ task[n].st = "probe" \/ MayStart(n)
    /\ LET hv == pipe.m.key
           onDisk == IF files[n].ex THEN Len(files[n].data) ELSE 0
           keep == onDisk > 0 /\ caches[n] = hv
           e == IF keep THEN onDisk ELSE 0
           kept == IF onDisk > 0 /\ ~keep THEN NoFile ELSE files[n]
           t0 == [NoTask EXCEPT !.attempt = Max(1, task[n].attempt),
                                !.existing = e, !.pre = kept.data]
       IN \/ /\ \E kind \in Failures :
                   task' = [task EXCEPT ![n] = RetryTask(t0, kind)]
             /\ files' = [files EXCEPT ![n] = kept]
             /\ caches' = [caches EXCEPT ![n] = hv]
             /\ resumes' = [resumes EXCEPT ![n] = TRUE]
          \/ \E t \in HeadTotals(n) :
               IF e > 0 /\ e = t
               THEN /\ task' = [task EXCEPT ![n] = Returned(t0, "ok")]
                    /\ files' = [files EXCEPT ![n] = kept]
                    /\ caches' = [caches EXCEPT ![n] = "none"]
                    /\ resumes' = [resumes EXCEPT ![n] = FALSE]
               ELSE /\ task' = [task EXCEPT ![n] =
                         [t0 EXCEPT !.st = "stream", !.total = t, !.cur = e,
                                    !.range = IF UseRange(e, t) THEN e ELSE -1,
                                    !.body = IF UseRange(e, t)
                                             THEN SubSeq(ServerData(n), e + 1, Len(ServerData(n)))
                                             ELSE ServerData(n)]]
                    /\ files' = [files EXCEPT ![n] =
                                   IF AppendMode(e) THEN kept
                                   ELSE [ex |-> TRUE, data |-> <<>>]]
                    /\ caches' = [caches EXCEPT ![n] = hv]
                    /\ resumes' = [resumes EXCEPT ![n] = TRUE]
    /\ UNCHANGED <<dlStore, tempDir, resumeState, pipe>>

\* One iteration of the chunk loop, the end of the stream, or an exception
\* raised by the transfer (what was written stays in the file).
DfChunk(n) ==
    /\ UNCHANGED <<supVars, clients, pool, staging>>
    /\ pipe.pc = "running"
    /\ task[n].st = "stream"
    /\ \/ /\ task[n].body # <<>>
          /\ LET t == task[n]
                 chunk == SubSeq(t.body, 1, Min(pipe.chunk, Len(t.body)))
                 rest == SubSeq(t.body, Len(chunk) + 1, Len(t.body))
                 over == t.cur + Len(chunk) > t.total
                 wrote == IF over THEN SliceTo(chunk, t.total - t.cur) ELSE chunk
             IN /\ files' = [files EXCEPT ![n].data = @ \o wrote]
                /\ task' = [task EXCEPT ![n] =
                     [@ EXCEPT !.cur = @ + Len(wrote),
                               !.body = rest,
                               !.st = IF over \/ rest = <<>> THEN "verify"
                                      ELSE "stream"]]
       \/ /\ task[n].body = <<>>
          /\ task' = [task EXCEPT ![n].st = "verify"]
          /\ UNCHANGED files
       \/ /\ \E kind \in Failures :
               task' = [task EXCEPT ![n] = RetryTask(@, kind)]
          /\ UNCHANGED files
    /\ UNCHANGED <<dlStore, tempDir, caches, resumes, resumeState, pipe>>

\* The sha256 check, then the size check; both return False at once.  On
\* success the .hash and .resume files are removed.
DfVerify(n) ==
    /\ UNCHANGED <<supVars, clients, pool, staging>>
    /\ pipe.pc = "running"
    /\ task[n].st = "verify"
    /\ IF HashMatches(files[n].data, n, pipe.m.key)
          /\ Len(files[n].data) = task[n].total
       THEN /\ task' = [task EXCEPT ![n] = Returned(@, "ok")]
            /\ caches' = [caches EXCEPT ![n] = "none"]
            /\ resumes' = [resumes EXCEPT ![n] = FALSE]
       ELSE /\ task' = [task EXCEPT ![n] = Returned(@, "failed")]
            /\ UNCHANGED <<caches, resumes>>
    /\ UNCHANGED <<dlStore, tempDir, files, resumeState, pipe>>

(* ------------------------------------------------------------------ *)
(* download_and_extract_model                                          *)
(* ------------------------------------------------------------------ *)

\* shutil.rmtree(temp_dir): the part files and their .hash / .resume files.
RemoveTemp ==
    /\ tempDir' = FALSE
    /\ files' = [n \in Names |-> NoFile]
    /\ caches' = [n \in Names |-> "none"]
    /\ resumes' = [n \in Names |-> FALSE]

\* What  cat '<temp_dir>/<model>'.zip.part-*  writes: every file of the
\* working directory whose name matches, in the shell's lexical order; the
\* .hash (-1) and .resume (-2) files of a part match the pattern too.
GlobBytes(n) ==
    (IF files[n].ex THEN files[n].data ELSE <<>>)
      \o (IF caches[n] # "none" THEN <<-1>> ELSE <<>>)
      \o (IF resumes[n] THEN <<-2>> ELSE <<>>)

ExtractStream == Flatten([i \in 1..Len(ArchiveParts) |-> GlobBytes(ArchiveParts[i])])

Successful == Cardinality({n \in Names : task[n].st = "ok"})

\* successful_downloads != num_files
Incomplete == Successful # pipe.m.num

\* download_and_extract_model returns v; chunk_size and max_workers are gone.
PipeReturn(v) == [pipe EXCEPT !.pc = "done", !.result = v, !.chunk = 0,
                              !.workers = 0]

\* Variant: a pipeline that never finds the artifact.
ModelExistsNever == FALSE

\* local_path.exists(): the artifact is in the content store.
ModelExists == dlStore

\* Entry: the content store gate.
PipeBegin(cs) ==
    /\ UNCHANGED <<supVars, clients, pool, staging>>
    /\ pipe.pc \in {"idle", "done"}
    /\ task' = [n \in Names |-> NoTask]
    /\ IF ModelExists
       THEN /\ resumeState' = FALSE
            /\ pipe' = [NoPipe EXCEPT !.pc = "done", !.result = "path"]
       ELSE /\ pipe' = [NoPipe EXCEPT !.pc = "manifest", !.chunk = cs]
            /\ UNCHANGED resumeState
    /\ UNCHANGED <<dlStore, tempDir, files, caches, resumes>>

\* requests.get of the manifest; on success the working directory and the
\* resume state file are created and one download_file call per entry of
\* data['files'] is submitted to a pool of min(2 * cpu_count, num_of_file).
PipeManifest ==
    /\ UNCHANGED <<supVars, clients, pool, staging>>
    /\ pipe.pc = "manifest"
    /\ \/ /\ pipe' = [PipeReturn("None") EXCEPT !.connLost = TRUE]
          /\ UNCHANGED <<tempDir, resumeState, task>>
       \/ \E m \in Manifests :
          /\ tempDir' = TRUE
          /\ resumeState' = TRUE
          /\ pipe' = [pipe EXCEPT !.pc = "running", !.m = m,
                                  !.workers = Min(CpuCount * 2, m.num)]
          /\ task' = [n \in Names |->
                        IF n \in SeqRange(m.files)
                        THEN [NoTask EXCEPT !.st = "queued"] ELSE NoTask]
    /\ UNCHANGED <<dlStore, files, caches, resumes>>

\* KeyboardInterrupt while the results are awaited: leaving the pool's
\* with-block waits for every submitted call, then the handler sets
\* interrupted and returns None; the finally block keeps the working
\* directory.
PipeInterrupt ==
    /\ UNCHANGED <<supVars, clients, pool, staging>>
    /\ pipe.pc = "running"
    /\ \A n \in SeqRange(pipe.m.files) : Resolved(n)
    /\ pipe' = [PipeReturn("None") EXCEPT !.interrupted = TRUE]
    /\ UNCHANGED <<dlStore, tempDir, files, caches, resumes, resumeState, task>>

\* All calls resolved: the count check raises RuntimeError (None, working
\* directory removed), or extraction is next.
PipeCollect ==
    /\ UNCHANGED <<supVars, clients, pool, staging>>
    /\ pipe.pc = "running"
    /\ \A n \in SeqRange(pipe.m.files) : Resolved(n)
    /\ IF Incomplete
       THEN /\ pipe' = PipeReturn("None")
            /\ RemoveTemp
       ELSE /\ pipe' = [pipe EXCEPT !.pc = "extract"]
            /\ UNCHANGED <<tempDir, files, caches, resumes>>
    /\ UNCHANGED <<dlStore, resumeState, task>>

\* Variant: the staging directory is left behind after the move.
StagingLeft == TRUE

\* shutil.rmtree(output_dir / model_name, ignore_errors=True) after the move.
StagingAfterMove == FALSE

\* cat | pigz -d | tar -x, shutil.move into the content store, cleanup.  A
\* failed extraction may leave what tar had written in the staging directory.  The
\* pipeline can only yield the artifact from the archive's own bytes, and it
\* may fail (CalledProcessError); the finally block removes the working
\* directory in both cases.
PipeExtract ==
    /\ UNCHANGED <<supVars, clients, pool>>
    /\ pipe.pc = "extract"
    /\ \/ /\ ExtractStream = ArchiveData
          /\ dlStore' = TRUE
          /\ staging' = StagingAfterMove
          /\ resumeState' = FALSE
          /\ pipe' = PipeReturn("path")
       \/ /\ pipe' = PipeReturn("None")
          /\ staging' \in {staging, TRUE}
          /\ UNCHANGED <<dlStore, resumeState>>
    /\ RemoveTemp
    /\ UNCHANGED task

DlNext ==
    \/ \E cs \in ChunkSizes : PipeBegin(cs)
    \/ PipeManifest
    \/ PipeInterrupt
    \/ PipeCollect
    \/ PipeExtract
    \/ \E n \in Names : DfAttempt(n) \/ DfChunk(n) \/ DfVerify(n)

(* ------------------------------------------------------------------ *)
(* The worker pool of download_and_extract_model, calls counted        *)
(* ------------------------------------------------------------------ *)

\* Entries a manifest may list: one more than 2 * os.cpu_count().
MaxParts == 2 * CpuCount + 1

\* --chunk-size of the download command (default).
CLI_CHUNK_SIZE == 8192

\* The max_workers argument: 0 stands for None (a direct call with defaults);
\* handle_download passes args.chunk_size in this position.
MaxWorkersArgs == {0, CLI_CHUNK_SIZE}

\* max_workers = max_workers or min(os.cpu_count() * 2, num_files)
PoolSize(mw, num) == IF mw # 0 THEN mw ELSE Min(CpuCount * 2, num)

NoPool == [pc |-> "idle", parts |-> 0, num |-> 0, workers |-> 0,
           queued |-> 0, running |-> 0, ok |-> 0, failed |-> 0]

PoolInit == pool = NoPool

\* The pool is created and one download_file call per entry is submitted.
PoolSubmit(parts, num, mw) ==
    /\ pool.pc \in {"idle", "done"}
    /\ pool' = [NoPool EXCEPT !.pc = "running", !.parts = parts, !.num = num,
                              !.workers = PoolSize(mw, num), !.queued = parts]
    /\ UNCHANGED <<supVars, dlVars, clients>>

\* A free worker thread takes the next submitted call.
PoolStartTask ==
    /\ pool.pc = "running"
    /\ pool.queued > 0
    /\ pool.running < pool.workers
    /\ pool' = [pool EXCEPT !.queued = @ - 1, !.running = @ + 1]
    /\ UNCHANGED <<supVars, dlVars, clients>>

\* A download_file call returns (True, name) or (False, name).
PoolFinishTask(success) ==
    /\ pool.pc = "running"
    /\ pool.running > 0
    /\ pool' = [pool EXCEPT !.running = @ - 1,
                            !.ok = IF success THEN @ + 1 ELSE @,
                            !.failed = IF success THEN @ ELSE @ + 1]
    /\ UNCHANGED <<supVars, dlVars, clients>>

\* as_completed is exhausted and the with-block is left.
PoolJoin ==
    /\ pool.pc = "running"
    /\ pool.queued = 0 /\ pool.running = 0
    /\ pool' = [pool EXCEPT !.pc = "done"]
    /\ UNCHANGED <<supVars, dlVars, clients>>

PoolNext ==
    \/ \E parts \in 1..MaxParts, num \in 1..MaxParts, mw \in MaxWorkersArgs :
          PoolSubmit(parts, num, mw)
    \/ PoolStartTask
    \/ \E success \in BOOLEAN : PoolFinishTask(success)
    \/ PoolJoin

(* ------------------------------------------------------------------ *)
(* Specifications                                                      *)
(* ------------------------------------------------------------------ *)

vars == <<record, procs, store, pc, inv, result, hist,
          dlStore, tempDir, files, caches, resumes, resumeState, task, pipe,
          staging, clients, pool>>

Init == SupInit /\ DlInit /\ ConcInit /\ PoolInit

\* The supervisor: start / stop / status invocations, one at a time.
Next == SupNext

Spec == Init /\ [][Next]_vars

\* The download pipeline.
DlSpec == Init /\ [][DlNext]_vars

\* Manager invocations running concurrently.
ConcSpec == Init /\ [][ConcNext]_vars

\* The worker pool of a pipeline invocation.
PoolSpec == Init /\ [][PoolNext]_vars

(* ------------------------------------------------------------------ *)
(* Download properties                                                 *)
(* ------------------------------------------------------------------ *)

Submitted == SeqRange(pipe.m.files)

\* C9: if download_file returned False for any entry of the manifest, the
\* pipeline returns None and the content store holds no artifact.
C9_AllOrNothing ==
    (\E n \in Submitted : task[n].st = "failed") =>
        /\ ~dlStore
        /\ (pipe.pc = "done" => pipe.result = "None")

\* An attempt that found the first N of the M bytes on disk, 0 < N < M, with
\* the server reporting M.
Resuming(n) ==
    /\ task[n].st \in {"stream", "verify"}
    /\ 0 < task[n].existing /\ task[n].existing < Len(ServerData(n))
    /\ task[n].total = Len(ServerData(n))
    /\ task[n].pre = SubSeq(ServerData(n), 1, task[n].existing)

\* C10: a part interrupted after N of M bytes is resumed: the bytes on disk
\* are kept (the .hash file written by the interrupted attempt makes the next
\* one keep them), the request carries Range: bytes=N-, exactly the bytes
\* from N on are appended, and the finished file equals the served bytes.
C10_ResumeCorrect ==
    \A n \in Names :
        /\ (task[n].st = "probe" /\ files[n].ex /\ files[n].data # <<>>) =>
               caches[n] = pipe.m.key
        /\ Resuming(n) =>
               /\ task[n].range = task[n].existing
               /\ files[n].data =
                      task[n].pre \o SubSeq(ServerData(n), task[n].existing + 1, task[n].cur)
               /\ (task[n].st = "verify" => files[n].data = ServerData(n))

C10_Witness ==
    \E n \in Names :
        /\ Resuming(n) /\ task[n].st = "verify"
        /\ task[n].attempt > 1
        /\ files[n].data = ServerData(n)

\* The part file of n is whole on disk and its .hash file is gone: an earlier
\* download_file call for n returned success and nothing has touched the
\* file since (every attempt writes the .hash file, only success removes it
\* while keeping the part).
CompleteOnDisk(n) ==
    files[n].ex /\ files[n].data = ServerData(n) /\ caches[n] = "none"

\* C11: the first step of a later download_file call for a part that is
\* Complete on disk neither deletes or changes the part file nor opens a body
\* request for it.
C11_NoRedownload ==
    [][\A n \in Names :
         (task[n].st = "queued" /\ CompleteOnDisk(n) /\ task'[n] # task[n]) =>
             /\ files'[n] = files[n]
             /\ task'[n].st # "stream"]_vars

\* C16: when the server reports a total smaller than the bytes already on
\* disk, the attempt requests the full object and opens the part file
\* truncating, so the stale bytes are gone and nothing is appended to them.
C16_StaleDiscarded ==
    \A n \in Names :
        (task[n].st \in {"stream", "verify"} /\ Len(task[n].pre) > task[n].total) =>
            /\ task[n].range = -1
            /\ ~AppendMode(task[n].existing)
            /\ Len(files[n].data) <= task[n].total

\* C17: download_file makes at most MAX_ATTEMPTS attempts; before attempt
\* k + 1 that follows a transport failure of attempt k it has slept
\* SLEEP_TIME * 2^(k-1); when the last attempt fails on a transport failure it
\* returns False without sleeping.
C17_Backoff ==
    \A n \in Names :
        /\ task[n].attempt <= MAX_ATTEMPTS
        /\ (task[n].st = "probe" /\ task[n].attempt > 1
               /\ task[n].err \in TransportFailures) =>
               task[n].wait = SLEEP_TIME * 2 ^ (task[n].attempt - 2)
        /\ (task[n].st = "failed" /\ task[n].err \in TransportFailures) =>
               task[n].wait = 0

\* C18: a part whose integrity check (hash, size) fails is fetched again
\* while attempts remain: download_file gives the part up on an integrity
\* failure only in its last attempt.
C18_IntegrityRetried ==
    [][\A n \in Names :
         (task[n].st = "verify" /\ task'[n].st = "failed") =>
             task[n].attempt = MAX_ATTEMPTS]_vars

\* The failed invocation was cut short by the transport or by the user: the
\* manifest request failed, a part exhausted its attempts on transport
\* failures, or the run was interrupted.
TransportOrCancel ==
    \/ pipe.interrupted
    \/ pipe.connLost
    \/ \E n \in Submitted :
          task[n].st = "failed" /\ task[n].err \in TransportFailures

\* C19: a failed invocation that got as far as the working directory keeps
\* it, with every completed part file, when the failure was a transport
\* interruption or a cancellation, and removes it otherwise.
C19_PreserveOnTransport ==
    (pipe.pc = "done" /\ pipe.result = "None" /\ pipe.m # NoManifest) =>
        IF TransportOrCancel
        THEN /\ tempDir
             /\ \A n \in Submitted :
                   task[n].st = "ok" => files[n].ex /\ files[n].data # <<>>
        ELSE ~tempDir

\* C20: extraction starts, and the invocation returns, only when every
\* submitted download_file call has resolved; extraction starts only when
\* every one of them returned success.
C20_Barrier ==
    /\ (pipe.pc \in {"extract", "done"} /\ pipe.m # NoManifest) =>
           \A n \in Submitted : Resolved(n)
    /\ pipe.pc = "extract" => \A n \in Submitted : task[n].st = "ok"

\* C23: no download_file call is started for a manifest whose part list is
\* empty or of another length than the declared part count.
C23_ManifestValidated ==
    (pipe.m # NoManifest
       /\ (pipe.m.files = <<>> \/ Len(pipe.m.files) # pipe.m.num)) =>
        \A n \in Names : task[n].st \in {"none", "queued"}

\* The file names of Names in lexical order.
LexOrder == <<"extra", "part-aa">>

\* The part files of the manifest's entries, one after the other in lexical
\* file-name order.
ManifestStream ==
    Flatten([i \in 1..Len(LexOrder) |->
               IF LexOrder[i] \in Submitted /\ files[LexOrder[i]].ex
               THEN files[LexOrder[i]].data ELSE <<>>])

\* C24: what is handed to decompression is the concatenation of exactly the
\* manifest's part files in lexical file-name order.
C24_StreamIsManifest ==
    pipe.pc = "extract" => ExtractStream = ManifestStream

\* C25: never more than min(2 * cpu_count, number of parts) download_file
\* calls are in progress, for a direct call and for the download command.
C25_BoundedWorkers ==
    pool.running <= Min(2 * CpuCount, pool.parts)

\* C26: when download_and_extract_model returns the path after fetching and
\* extracting, the artifact is in the content store and the working
\* directory with its part files, the staging directory and the resume-state
\* file are gone.
C26_CleanOnSuccess ==
    (pipe.pc = "done" /\ pipe.result = "path" /\ pipe.m # NoManifest) =>
        /\ dlStore
        /\ ~tempDir /\ ~staging /\ ~resumeState
        /\ \A n \in Names :
              ~files[n].ex /\ caches[n] = "none" /\ ~resumes[n]

\* Both parts of a two-part manifest succeeded and the artifact was
\* extracted.
C26_Witness ==
    /\ pipe.pc = "done" /\ pipe.result = "path"
    /\ pipe.m.num = 2 /\ Len(pipe.m.files) = 2
    /\ \A n \in Submitted : task[n].st = "ok"
    /\ dlStore

\* C27: in an attempt that started with no more bytes on disk than the total
\* the server reported, the part file never grows beyond that total, however
\* the body is chunked and however long it is.
C27_NeverBeyondTotal ==
    \A n \in Names :
        (task[n].st \in {"stream", "verify"} /\ task[n].existing <= task[n].total) =>
            /\ task[n].cur <= task[n].total
            /\ Len(files[n].data) <= task[n].total

\* The server streamed more than the total it reported and the last chunk
\* was cut.
C27_Witness ==
    \E n \in Names :
        /\ task[n].st = "verify"
        /\ task[n].existing <= task[n].total
        /\ 0 < task[n].total /\ task[n].total < Len(ServerData(n))
        /\ Len(files[n].data) = task[n].total

\* C12: an invocation that finds the artifact in the content store returns
\* its path in that one step: no manifest fetch, no download_file call, no
\* extraction, and the artifact, the working directory and every part file
\* with its .hash / .resume files are as they were.
C12_StoreGate ==
    [][(dlStore /\ pipe.pc \in {"idle", "done"} /\ pipe' # pipe) =>
          /\ pipe'.pc = "done" /\ pipe'.result = "path"
          /\ pipe'.m = NoManifest
          /\ \A n \in Names : task'[n] = NoTask
          /\ UNCHANGED <<dlStore, tempDir, files, caches, resumes>>]_vars

\* A gated invocation has returned: the artifact is there, no manifest was
\* fetched by this invocation.
C12_Witness ==
    /\ dlStore /\ pipe.pc = "done" /\ pipe.result = "path"
    /\ pipe.m = NoManifest

(* ------------------------------------------------------------------ *)
(* Supervisor properties over steps                                    *)
(* ------------------------------------------------------------------ *)

\* C21: start(H) that finds a record for H whose process is dead returns
\* True only after it has spawned a new process and seen it answer ok.
C21_StaleNotTrusted ==
    (StartDone /\ result = "True" /\ hist.rec0.present
       /\ hist.rec0.hash = inv.hash /\ ~hist.alive0) =>
        hist.spawned /\ hist.oks > 0

\* A poll iteration of start(): the probe's outcome is recorded or start()
\* returns.
PollStep == pc = "s_poll" /\ (pc' # pc \/ hist' # hist)

\* C22: a poll iteration that runs after the spawned process has exited, with
\* no ok answer seen so far, ends start() with False, whether or not the
\* child was reaped and whatever the probe's failure is.
C22_FailOnChildExit ==
    [][(PollStep /\ ~Alive(inv.child) /\ hist.oks = 0) =>
          (pc' = "done" /\ result' = "False")]_vars

====
